---- MODULE Spec2Model ----
(***************************************************************************)
(* A model of the block-library components of this repository:             *)
(*   - the native audio Player (onPressListen, the paused flag, the        *)
(*     title / extension / subtitle it renders);                           *)
(*   - the button block's edit component (ButtonEdit, URLPicker,           *)
(*     BorderPanel).                                                       *)
(* JavaScript values are tagged records so that undefined, '' and other    *)
(* strings stay distinct; file names are sequences of characters.          *)
(***************************************************************************)
EXTENDS Integers, Sequences, FiniteSets, TLC

VARIABLES
    \* ---- audio Player ----
    isIOS,              \* Platform.OS === 'ios'
    source,             \* prop source
    isUploadInProgress, \* prop
    isUploadFailed,     \* prop
    player,             \* this.player is set (the VideoPlayer ref; `this`
                        \* of a function component is whatever the build
                        \* binds, so the ref is set or unset by choice)
    paused,             \* useState( true )
    lastFsEvent,        \* history: the last fullscreen event received
    presses,            \* history: one record per press of Listen
    \* ---- audio Player render ----
    fileName,           \* prop fileName
    rendered,           \* the texts the last render showed
    \* ---- button edit ----
    url, linkTarget, rel, borderRadius,   \* block attributes
    dropdownOpen,       \* the Dropdown holding LinkControl is open
    panelMounted,       \* BorderPanel is mounted
    setAttrId,          \* identity of the setAttributes prop
    cbMemo,             \* useCallback memo of setBorderRadius
    firstRenderRadius,  \* history: radius when the callback was created
    lastOp              \* history: the last button operation

playerVars == <<isIOS, source, isUploadInProgress, isUploadFailed, player,
                paused, lastFsEvent, presses>>
renderVars == <<fileName, rendered>>
buttonVars == <<url, linkTarget, rel, borderRadius, dropdownOpen,
                panelMounted, setAttrId, cbMemo, firstRenderRadius, lastOp>>
vars == <<playerVars, renderVars, buttonVars>>

----------------------------------------------------------------------------
(* Bounds *)
MaxPresses == 2
MaxLen == 3
MaxRadius == 2
MaxSetAttrIds == 2

----------------------------------------------------------------------------
(* JavaScript values *)
Undefined == [t |-> "undefined"]
Str(s) == [t |-> "string", v |-> s]
Num(n) == [t |-> "number", v |-> n]
Bool(b) == [t |-> "boolean", v |-> b]
Chars(s) == [t |-> "chars", v |-> s]

\* ToBoolean
Truthy(x) ==
    CASE x.t = "undefined" -> FALSE
      [] x.t = "string" -> x.v # ""
      [] x.t = "number" -> x.v # 0
      [] x.t = "boolean" -> x.v
      [] x.t = "chars" -> x.v # <<>>

----------------------------------------------------------------------------
(* Audio Player: onPressListen *)

AlertUnsupported == [title |-> "Problem opening the audio",
                     message |-> "No application can handle this request."]
AlertUnknown == [title |-> "Problem opening the audio",
                 message |-> "An unknown error occurred. Please try again."]

\* The source prop: empty, or a URL.
Sources == {Str(""), Str("u1")}

\* Disabled only when both flags are set.
isDisabledBoth == isUploadFailed /\ isUploadInProgress

isDisabled == isUploadFailed \/ isUploadInProgress

\* A press that has done nothing yet; src, ios, ref are what the handler read.
NewPress(src, ios, ref) ==
    [src |-> src, ios |-> ios, ref |-> ref,
     phase |-> "done",          \* position in the promise chain
     fullscreen |-> 0,          \* calls of presentFullscreenPlayer
     nCanOpen |-> 0,            \* calls of Linking.canOpenURL
     nOpen |-> 0,               \* calls of Linking.openURL
     canOpen |-> "notCalled",   \* settlement of the canOpenURL promise
     open |-> "notCalled",      \* settlement of the openURL promise
     alerts |-> <<>>]           \* Alert.alert calls, in order

\* onPressListen without the early return after presentFullscreenPlayer.
OnPressListenNoReturn(src, ios, ref) ==
    IF Truthy(src)
    THEN [NewPress(src, ios, ref) EXCEPT
             !.fullscreen = IF ios /\ ref THEN 1 ELSE 0,
             !.nCanOpen = 1, !.canOpen = "pending",
             !.phase = "canOpenPending"]
    ELSE NewPress(src, ios, ref)

\* The synchronous part of onPressListen.
OnPressListen(src, ios, ref) ==
    IF Truthy(src)
    THEN IF ios /\ ref
         THEN [NewPress(src, ios, ref) EXCEPT !.fullscreen = 1]
         ELSE [NewPress(src, ios, ref) EXCEPT
                  !.nCanOpen = 1, !.canOpen = "pending",
                  !.phase = "canOpenPending"]
    ELSE NewPress(src, ios, ref)

\* The then callback without its else: openURL is called after the alert too.
ThenCallbackFallsThrough(pr, supported) ==
    LET shown == IF ~supported
                 THEN [pr EXCEPT !.alerts = Append(@, AlertUnsupported)]
                 ELSE pr
    IN  [shown EXCEPT !.nOpen = @ + 1, !.open = "pending",
                      !.phase = "openPending"]

\* The .then( ( supported ) => ... ) callback.
ThenCallback(pr, supported) ==
    IF ~supported
    THEN [pr EXCEPT !.alerts = Append(@, AlertUnsupported), !.phase = "done"]
    ELSE [pr EXCEPT !.nOpen = @ + 1, !.open = "pending",
                    !.phase = "openPending"]

\* A catch callback that tries the capability check again, once.
CatchCallbackRetries(pr) ==
    IF pr.nCanOpen < 2
    THEN [pr EXCEPT !.alerts = Append(@, AlertUnknown),
                    !.nCanOpen = @ + 1, !.canOpen = "pending",
                    !.open = "notCalled", !.phase = "canOpenPending"]
    ELSE [pr EXCEPT !.alerts = Append(@, AlertUnknown), !.phase = "done"]

\* The .catch( () => ... ) callback.
CatchCallback(pr) ==
    [pr EXCEPT !.alerts = Append(@, AlertUnknown), !.phase = "done"]

PressIds == 1..Len(presses)

PressListen ==
    /\ ~isDisabled
    /\ Len(presses) < MaxPresses
    /\ presses' = Append(presses, OnPressListen(source, isIOS, player))
    /\ UNCHANGED <<isIOS, source, isUploadInProgress, isUploadFailed, player,
                   paused, lastFsEvent>>
    /\ UNCHANGED <<renderVars, buttonVars>>

\* The canOpenURL promise of press i fulfils with `supported`: the then
\* callback is queued.
CanOpenResolves(i, supported) ==
    /\ presses[i].phase = "canOpenPending"
    /\ presses' = [presses EXCEPT ![i] =
          [@ EXCEPT !.canOpen = IF supported THEN "resolvedTrue"
                                             ELSE "resolvedFalse",
                    !.phase = "thenQueued"]]
    /\ UNCHANGED <<isIOS, source, isUploadInProgress, isUploadFailed, player,
                   paused, lastFsEvent>>
    /\ UNCHANGED <<renderVars, buttonVars>>

\* The canOpenURL promise rejects: the then callback is skipped and the
\* rejection reaches the catch callback.
CanOpenRejects(i) ==
    /\ presses[i].phase = "canOpenPending"
    /\ presses' = [presses EXCEPT ![i] =
          [@ EXCEPT !.canOpen = "rejected", !.phase = "catchQueued"]]
    /\ UNCHANGED <<isIOS, source, isUploadInProgress, isUploadFailed, player,
                   paused, lastFsEvent>>
    /\ UNCHANGED <<renderVars, buttonVars>>

RunThen(i) ==
    /\ presses[i].phase = "thenQueued"
    /\ presses' = [presses EXCEPT ![i] =
          ThenCallback(@, @.canOpen = "resolvedTrue")]
    /\ UNCHANGED <<isIOS, source, isUploadInProgress, isUploadFailed, player,
                   paused, lastFsEvent>>
    /\ UNCHANGED <<renderVars, buttonVars>>

\* The openURL promise the then callback returned fulfils: the chain ends
\* without running the catch callback.
OpenResolves(i) ==
    /\ presses[i].phase = "openPending"
    /\ presses' = [presses EXCEPT ![i] =
          [@ EXCEPT !.open = "resolved", !.phase = "done"]]
    /\ UNCHANGED <<isIOS, source, isUploadInProgress, isUploadFailed, player,
                   paused, lastFsEvent>>
    /\ UNCHANGED <<renderVars, buttonVars>>

OpenRejects(i) ==
    /\ presses[i].phase = "openPending"
    /\ presses' = [presses EXCEPT ![i] =
          [@ EXCEPT !.open = "rejected", !.phase = "catchQueued"]]
    /\ UNCHANGED <<isIOS, source, isUploadInProgress, isUploadFailed, player,
                   paused, lastFsEvent>>
    /\ UNCHANGED <<renderVars, buttonVars>>

RunCatch(i) ==
    /\ presses[i].phase = "catchQueued"
    /\ presses' = [presses EXCEPT ![i] = CatchCallback(@)]
    /\ UNCHANGED <<isIOS, source, isUploadInProgress, isUploadFailed, player,
                   paused, lastFsEvent>>
    /\ UNCHANGED <<renderVars, buttonVars>>

\* VideoPlayer's fullscreen callbacks.
OnFullscreenPlayerWillPresent ==
    /\ paused' = FALSE
    /\ lastFsEvent' = "willPresent"
    /\ UNCHANGED <<isIOS, source, isUploadInProgress, isUploadFailed, player,
                   presses>>
    /\ UNCHANGED <<renderVars, buttonVars>>

\* A dismiss callback that leaves the player playing.
OnFullscreenPlayerDidDismissKeepsPlaying ==
    /\ lastFsEvent' = "didDismiss"
    /\ UNCHANGED <<isIOS, source, isUploadInProgress, isUploadFailed, player,
                   paused, presses>>
    /\ UNCHANGED <<renderVars, buttonVars>>

OnFullscreenPlayerDidDismiss ==
    /\ paused' = TRUE
    /\ lastFsEvent' = "didDismiss"
    /\ UNCHANGED <<isIOS, source, isUploadInProgress, isUploadFailed, player,
                   presses>>
    /\ UNCHANGED <<renderVars, buttonVars>>

----------------------------------------------------------------------------
(* Audio Player: what a render shows *)

Alphabet == {"a", "B", ".", "3"}

\* Every string over Alphabet of length at most n.
RECURSIVE StringsUpTo(_)
StringsUpTo(n) ==
    IF n = 0 THEN {<<>>}
    ELSE LET shorter == StringsUpTo(n - 1)
         IN  shorter \cup {Append(w, c) : w \in shorter, c \in Alphabet}

FileNames == {Undefined} \cup {Chars(w) : w \in StringsUpTo(MaxLen)}

\* String.prototype.toUpperCase, one character.
UpperChar(c) == IF c = "a" THEN "A" ELSE c

ToUpperCase(w) == [i \in 1..Len(w) |-> UpperChar(w[i])]

\* String.prototype.split( sep ) for a one-character separator: the pieces
\* between the separators, empty pieces included.
RECURSIVE Split(_, _)
Split(w, sep) ==
    IF w = <<>> THEN << <<>> >>
    ELSE LET before == Split(SubSeq(w, 1, Len(w) - 1), sep)
             c == w[Len(w)]
         IN  IF c = sep
             THEN Append(before, <<>>)
             ELSE [before EXCEPT ![Len(before)] = Append(@, c)]

\* Array.prototype.join without the separator.
RECURSIVE JoinNoSeparator(_, _)
JoinNoSeparator(parts, sep) ==
    IF parts = <<>> THEN <<>>
    ELSE Head(parts) \o JoinNoSeparator(Tail(parts), sep)

\* Array.prototype.join( sep ).
RECURSIVE Join(_, _)
Join(parts, sep) ==
    IF parts = <<>> THEN <<>>
    ELSE IF Len(parts) = 1 THEN Head(parts)
    ELSE Head(parts) \o <<sep>> \o Join(Tail(parts), sep)

\* title and extension as Player computes them.
TitleAndExtension(fn) ==
    IF Truthy(fn)
    THEN LET parts == Split(fn.v, ".")
             popped == parts[Len(parts)]
             rest == SubSeq(parts, 1, Len(parts) - 1)
         IN  [title |-> Join(rest, "."), extension |-> ToUpperCase(popped)]
    ELSE [title |-> <<>>, extension |-> <<>>]

\* The translated texts, each one element; the ellipsis of the uploading text
\* is written as three dots.
TextUploading == <<"Uploading...">>
TextUploadFailed == <<"Failed to insert audio file. Please tap for options.">>
TextAudioFile == <<" audio file">>

\* getSubtitleValue: a sequence of characters and translated texts.
getSubtitleValue(extension, inProgress, failed) ==
    IF inProgress THEN TextUploading
    ELSE IF failed THEN TextUploadFailed
    ELSE extension \o TextAudioFile

\* The texts one render of Player shows.
RenderPlayer(fn, inProgress, failed) ==
    LET te == TitleAndExtension(fn)
    IN  [title |-> te.title,
         extension |-> te.extension,
         subtitle |-> getSubtitleValue(te.extension, inProgress, failed)]

\* The ref callback of VideoPlayer: this.player = ref (null when detached).
SetPlayerRef(ref) ==
    /\ player # ref
    /\ player' = ref
    /\ UNCHANGED <<isIOS, source, isUploadInProgress, isUploadFailed,
                   paused, lastFsEvent, presses>>
    /\ UNCHANGED <<renderVars, buttonVars>>

\* The parent re-renders Player with other props.
SetPlayerProps(src, fn, inProgress, failed) ==
    /\ <<src, fn, inProgress, failed>>
          # <<source, fileName, isUploadInProgress, isUploadFailed>>
    /\ source' = src
    /\ fileName' = fn
    /\ isUploadInProgress' = inProgress
    /\ isUploadFailed' = failed
    /\ rendered' = RenderPlayer(fn, inProgress, failed)
    /\ UNCHANGED <<isIOS, player, paused, lastFsEvent, presses>>
    /\ UNCHANGED buttonVars

----------------------------------------------------------------------------
(* Button edit: ButtonEdit, URLPicker, BorderPanel *)

NEW_TAB_REL == "noreferrer noopener"
Blank == Str("_blank")

Urls == {Undefined, Str(""), Str("u1")}
OpensInNewTabValues == {Undefined, Bool(FALSE), Bool(TRUE)}
RelTexts == {Str(""), Str(NEW_TAB_REL), Str("nofollow")}
RadiusInputs == {Undefined} \cup {Num(n) : n \in 0..MaxRadius}

\* onToggleOpenInNewTab that drops whatever rel there is when turning off.
onToggleOpenInNewTabClearsRel(value, curRel) ==
    LET newLinkTarget == IF Truthy(value) THEN Blank ELSE Undefined
        updatedRel ==
            IF Truthy(newLinkTarget) /\ ~Truthy(curRel) THEN Str(NEW_TAB_REL)
            ELSE IF ~Truthy(newLinkTarget) THEN Undefined
            ELSE curRel
    IN  [linkTarget |-> newLinkTarget, rel |-> updatedRel]

\* onToggleOpenInNewTab that never touches rel.
onToggleOpenInNewTabKeepsRel(value, curRel) ==
    [linkTarget |-> IF Truthy(value) THEN Blank ELSE Undefined,
     rel |-> curRel]

\* onToggleOpenInNewTab( value ), with the rel its closure holds: the
\* attributes it passes to setAttributes.
onToggleOpenInNewTab(value, curRel) ==
    LET newLinkTarget == IF Truthy(value) THEN Blank ELSE Undefined
        updatedRel ==
            IF Truthy(newLinkTarget) /\ ~Truthy(curRel) THEN Str(NEW_TAB_REL)
            ELSE IF ~Truthy(newLinkTarget) /\ curRel = Str(NEW_TAB_REL)
                 THEN Undefined
            ELSE curRel
    IN  [linkTarget |-> newLinkTarget, rel |-> updatedRel]

\* BorderPanel( { borderRadius = '', ... } ): the default of the prop.
DefaultBorderRadius(r) == IF r = Undefined THEN Str("") ELSE r

NoMemo == [t |-> "none"]

\* useCallback whose dependencies change with every render.
useCallbackAlwaysFresh(memo, deps, captured) ==
    [t |-> "callback", deps |-> deps, initialBorderRadius |-> captured]

\* useCallback( fn, deps ): the callback of the first render, or of the last
\* render whose deps differed, with what it closed over.
useCallback(memo, deps, captured) ==
    IF memo.t = "none" \/ memo.deps # deps
    THEN [t |-> "callback", deps |-> deps, initialBorderRadius |-> captured]
    ELSE memo

\* One render of BorderPanel: the setBorderRadius callback after it.
RenderBorderPanel(memo, radius, id) ==
    useCallback(memo, id, DefaultBorderRadius(radius))

\* The re-render that follows setAttributes (BorderPanel, when mounted).
Rerender(radius, id) ==
    IF panelMounted THEN RenderBorderPanel(cbMemo, radius, id) ELSE cbMemo

\* LinkControl's onChange( { url: newURL = '', opensInNewTab } ).
LinkControlChange(newURL, newOpensInNewTab) ==
    LET opensInNewTab == Bool(linkTarget = Blank)
        toggles == opensInNewTab # newOpensInNewTab
        toggled == onToggleOpenInNewTab(newOpensInNewTab, rel)
    IN  /\ dropdownOpen
        /\ url' = IF newURL = Undefined THEN Str("") ELSE newURL
        /\ linkTarget' = IF toggles THEN toggled.linkTarget ELSE linkTarget
        /\ rel' = IF toggles THEN toggled.rel ELSE rel
        /\ cbMemo' = Rerender(borderRadius, setAttrId)
        /\ lastOp' = [op |-> "linkChange", toggled |-> toggles,
                      value |-> newOpensInNewTab, before |-> linkTarget]
        /\ UNCHANGED <<borderRadius, dropdownOpen, panelMounted, setAttrId,
                       firstRenderRadius>>
        /\ UNCHANGED <<playerVars, renderVars>>

\* The 'Link rel' TextControl's onChange.
OnSetLinkRel(value) ==
    /\ rel' = value
    /\ cbMemo' = Rerender(borderRadius, setAttrId)
    /\ lastOp' = [op |-> "setLinkRel", value |-> value, before |-> rel]
    /\ UNCHANGED <<url, linkTarget, borderRadius, dropdownOpen, panelMounted,
                   setAttrId, firstRenderRadius>>
    /\ UNCHANGED <<playerVars, renderVars>>

\* Unlink: the toolbar button (shown once a url is set) or the shortcut.
OnRemove(type) ==
    /\ type = "click" => Truthy(url)
    /\ url' = Undefined
    /\ linkTarget' = Undefined
    /\ rel' = Undefined
    /\ dropdownOpen' = IF type = "keydown" THEN FALSE ELSE dropdownOpen
    /\ cbMemo' = Rerender(borderRadius, setAttrId)
    /\ lastOp' = [op |-> "remove", value |-> Str(type), before |-> linkTarget]
    /\ UNCHANGED <<borderRadius, panelMounted, setAttrId, firstRenderRadius>>
    /\ UNCHANGED <<playerVars, renderVars>>

\* The link shortcut toggles the Dropdown that holds LinkControl.
OnToggle ==
    /\ dropdownOpen' = ~dropdownOpen
    /\ lastOp' = [op |-> "toggleDropdown", value |-> Bool(dropdownOpen'),
                  before |-> Bool(dropdownOpen)]
    /\ UNCHANGED <<url, linkTarget, rel, borderRadius, panelMounted,
                   setAttrId, cbMemo, firstRenderRadius>>
    /\ UNCHANGED <<playerVars, renderVars>>

\* First render of BorderPanel.
MountBorderPanel ==
    /\ ~panelMounted
    /\ panelMounted' = TRUE
    /\ cbMemo' = RenderBorderPanel(NoMemo, borderRadius, setAttrId)
    /\ firstRenderRadius' = DefaultBorderRadius(borderRadius)
    /\ lastOp' = [op |-> "mount", value |-> Undefined, before |-> Undefined]
    /\ UNCHANGED <<url, linkTarget, rel, borderRadius, dropdownOpen,
                   setAttrId>>
    /\ UNCHANGED <<playerVars, renderVars>>

UnmountBorderPanel ==
    /\ panelMounted
    /\ panelMounted' = FALSE
    /\ cbMemo' = NoMemo
    /\ firstRenderRadius' = Undefined
    /\ lastOp' = [op |-> "unmount", value |-> Undefined, before |-> Undefined]
    /\ UNCHANGED <<url, linkTarget, rel, borderRadius, dropdownOpen,
                   setAttrId>>
    /\ UNCHANGED <<playerVars, renderVars>>

\* The parent passes another setAttributes function; BorderPanel re-renders
\* and useCallback makes a new callback.
ChangeSetAttributes(id) ==
    /\ id # setAttrId
    /\ setAttrId' = id
    /\ cbMemo' = Rerender(borderRadius, id)
    /\ firstRenderRadius' = IF panelMounted
                            THEN DefaultBorderRadius(borderRadius)
                            ELSE firstRenderRadius
    /\ lastOp' = [op |-> "changeSetAttributes", value |-> Num(id),
                  before |-> Num(setAttrId)]
    /\ UNCHANGED <<url, linkTarget, rel, borderRadius, dropdownOpen,
                   panelMounted>>
    /\ UNCHANGED <<playerVars, renderVars>>

\* RangeControl's onChange: setBorderRadius( newBorderRadius ), undefined
\* on reset.
SetBorderRadius(newBorderRadius) ==
    /\ panelMounted
    /\ borderRadius' = IF newBorderRadius = Undefined
                       THEN cbMemo.initialBorderRadius
                       ELSE newBorderRadius
    /\ cbMemo' = RenderBorderPanel(cbMemo, borderRadius', setAttrId)
    /\ lastOp' = [op |-> "setBorderRadius", value |-> newBorderRadius,
                  before |-> borderRadius]
    /\ UNCHANGED <<url, linkTarget, rel, dropdownOpen, panelMounted,
                   setAttrId, firstRenderRadius>>
    /\ UNCHANGED <<playerVars, renderVars>>

----------------------------------------------------------------------------
(* Idle states of the parts a specification does not exercise *)
RenderIdle ==
    /\ fileName = Undefined
    /\ rendered = RenderPlayer(fileName, isUploadInProgress, isUploadFailed)

ButtonInitial ==
    /\ url = Undefined
    /\ linkTarget = Undefined
    /\ rel = Undefined
    /\ borderRadius = Undefined
    /\ dropdownOpen = FALSE
    /\ panelMounted = FALSE
    /\ setAttrId = 1
    /\ cbMemo = NoMemo
    /\ firstRenderRadius = Undefined
    /\ lastOp = [op |-> "none", value |-> Undefined, before |-> Undefined]

PlayerIdle ==
    /\ isIOS = FALSE
    /\ source = Str("")
    /\ isUploadInProgress = FALSE
    /\ isUploadFailed = FALSE
    /\ player = FALSE
    /\ paused = TRUE
    /\ lastFsEvent = "none"
    /\ presses = <<>>

----------------------------------------------------------------------------
(* Specification of the audio Player's behaviour *)
InitPlayer ==
    /\ isIOS \in BOOLEAN
    /\ source \in Sources
    /\ isUploadInProgress \in BOOLEAN
    /\ isUploadFailed \in BOOLEAN
    /\ player \in BOOLEAN
    /\ paused = TRUE
    /\ lastFsEvent = "none"
    /\ presses = <<>>
    /\ RenderIdle
    /\ ButtonInitial

NextPlayer ==
    \/ PressListen
    \/ \E i \in PressIds, supported \in BOOLEAN : CanOpenResolves(i, supported)
    \/ \E i \in PressIds : CanOpenRejects(i)
    \/ \E i \in PressIds : RunThen(i)
    \/ \E i \in PressIds : OpenResolves(i)
    \/ \E i \in PressIds : OpenRejects(i)
    \/ \E i \in PressIds : RunCatch(i)
    \/ OnFullscreenPlayerWillPresent
    \/ OnFullscreenPlayerDidDismiss
    \/ \E ref \in BOOLEAN : SetPlayerRef(ref)
    \/ \E src \in Sources, inProgress \in BOOLEAN, failed \in BOOLEAN :
          SetPlayerProps(src, fileName, inProgress, failed)

SpecPlayer == InitPlayer /\ [][NextPlayer]_vars

----------------------------------------------------------------------------
(* Specification of what the audio Player renders *)
InitRender ==
    /\ isIOS = FALSE
    /\ source = Str("")
    /\ isUploadInProgress \in BOOLEAN
    /\ isUploadFailed \in BOOLEAN
    /\ player = FALSE
    /\ paused = TRUE
    /\ lastFsEvent = "none"
    /\ presses = <<>>
    /\ fileName \in FileNames
    /\ rendered = RenderPlayer(fileName, isUploadInProgress, isUploadFailed)
    /\ ButtonInitial

NextRender ==
    \E fn \in FileNames, inProgress \in BOOLEAN, failed \in BOOLEAN :
        SetPlayerProps(source, fn, inProgress, failed)

SpecRender == InitRender /\ [][NextRender]_vars

----------------------------------------------------------------------------
(* Specification of the button edit component *)
InitButton ==
    /\ PlayerIdle
    /\ RenderIdle
    /\ ButtonInitial

NextButton ==
    \/ \E newURL \in Urls, newOpensInNewTab \in OpensInNewTabValues :
          LinkControlChange(newURL, newOpensInNewTab)
    \/ \E value \in RelTexts : OnSetLinkRel(value)
    \/ \E type \in {"click", "keydown"} : OnRemove(type)
    \/ OnToggle
    \/ MountBorderPanel
    \/ UnmountBorderPanel
    \/ \E id \in 1..MaxSetAttrIds : ChangeSetAttributes(id)
    \/ \E newBorderRadius \in RadiusInputs : SetBorderRadius(newBorderRadius)

SpecButton == InitButton /\ [][NextButton]_vars

----------------------------------------------------------------------------
(* Claims about the audio Player *)

\* The press took the URL path: source non-empty, not iOS-with-player.
UrlPath(pr) == Truthy(pr.src) /\ ~(pr.ios /\ pr.ref)

\* C1: every press of Listen that reaches the URL path ends in exactly one
\* of: (a) canOpenURL resolved false and the one alert is "No application
\* can handle this request."; (b) canOpenURL rejected, or resolved true and
\* openURL rejected, and the one alert is "An unknown error occurred. Please
\* try again."; (c) canOpenURL resolved true, openURL resolved, and there is
\* no alert.  No press ever has two alerts.
C1_OneOutcomePerPress ==
    \A i \in PressIds :
        LET pr == presses[i]
            a == pr.canOpen = "resolvedFalse" /\ pr.open = "notCalled"
            b == \/ pr.canOpen = "rejected" /\ pr.open = "notCalled"
                 \/ pr.canOpen = "resolvedTrue" /\ pr.open = "rejected"
            c == pr.canOpen = "resolvedTrue" /\ pr.open = "resolved"
        IN  /\ Len(pr.alerts) <= 1
            /\ UrlPath(pr) /\ pr.phase = "done" =>
                  /\ Cardinality({x \in {"a", "b", "c"} :
                         \/ x = "a" /\ a
                         \/ x = "b" /\ b
                         \/ x = "c" /\ c}) = 1
                  /\ a => pr.alerts = <<AlertUnsupported>>
                  /\ b => pr.alerts = <<AlertUnknown>>
                  /\ c => pr.alerts = <<>>
            /\ UrlPath(pr) /\ pr.phase # "done" => pr.alerts = <<>>

C1_Witness ==
    \E i, j \in PressIds :
        /\ presses[i].phase = "done"
        /\ presses[i].canOpen = "resolvedTrue"
        /\ presses[i].open = "rejected"
        /\ presses[i].alerts = <<AlertUnknown>>
        /\ presses[j].phase = "done"
        /\ presses[j].canOpen = "resolvedFalse"
        /\ presses[j].alerts = <<AlertUnsupported>>

\* The press has failed: unsupported URL, or a rejection.
Failed(pr) ==
    \/ pr.canOpen \in {"resolvedFalse", "rejected"}
    \/ pr.open = "rejected"

C2_Calls ==
    \A i \in PressIds :
        /\ presses[i].nCanOpen <= 1
        /\ presses[i].nOpen <= 1
        /\ presses[i].nOpen = 1 => presses[i].canOpen = "resolvedTrue"
        /\ presses[i].canOpen = "resolvedTrue" /\ presses[i].phase # "thenQueued"
              => presses[i].nOpen = 1

C2_Step ==
    /\ Len(presses') >= Len(presses)
    /\ \A i \in PressIds :
          \* a check is started by the press only, never later
          /\ presses'[i].nCanOpen = presses[i].nCanOpen
          \* no call of either kind once the press has failed
          /\ Failed(presses[i]) => presses'[i].nOpen = presses[i].nOpen

\* C2: each press starts at most one canOpenURL check and at most one
\* openURL call, openURL only after the canOpenURL check of the same press
\* resolved true; once a press has failed no further canOpenURL or openURL
\* call is made for it (a new call needs a new press).
C2_NoRetry == [](C2_Calls) /\ [][C2_Step]_vars

C2_Witness ==
    \E i, j \in PressIds :
        /\ presses[i].phase = "done" /\ presses[i].canOpen = "rejected"
        /\ presses[j].phase = "done" /\ presses[j].open = "rejected"
        /\ presses[j].nOpen = 1

\* C3: paused is true initially and is false exactly when the last
\* fullscreen event received was onFullscreenPlayerWillPresent (not yet
\* followed by onFullscreenPlayerDidDismiss); a step that changes the
\* presses (a press of Listen, a promise settling, a callback) or the props
\* leaves paused alone.
C3_Paused ==
    /\ [](paused = (lastFsEvent # "willPresent"))
    /\ [][paused' # paused =>
            /\ presses' = presses
            /\ lastFsEvent' # lastFsEvent]_vars

C3_Witness ==
    /\ paused = FALSE
    /\ lastFsEvent = "willPresent"
    /\ \E i \in PressIds : presses[i].alerts # <<>>
    /\ \E i \in PressIds : presses[i].fullscreen = 1

\* C4: a press on iOS with a non-empty source and a player reference
\* presents the fullscreen player and calls neither canOpenURL nor openURL
\* and shows no alert; a press with an empty source does nothing at all.
C4_FullscreenOrNothing ==
    \A i \in PressIds :
        LET pr == presses[i]
        IN  /\ Truthy(pr.src) /\ pr.ios /\ pr.ref =>
                  /\ pr.fullscreen = 1
                  /\ pr.nCanOpen = 0 /\ pr.nOpen = 0
                  /\ pr.canOpen = "notCalled" /\ pr.open = "notCalled"
                  /\ pr.alerts = <<>>
            /\ ~Truthy(pr.src) =>
                  /\ pr.fullscreen = 0
                  /\ pr.nCanOpen = 0 /\ pr.nOpen = 0
                  /\ pr.canOpen = "notCalled" /\ pr.open = "notCalled"
                  /\ pr.alerts = <<>>

C4_Witness ==
    \E i, j \in PressIds :
        /\ Truthy(presses[i].src) /\ presses[i].ios /\ presses[i].ref
        /\ presses[i].fullscreen = 1
        /\ presses[j].src = Str("")
        /\ presses[j].fullscreen = 0

\* Totals over all presses.
RECURSIVE SumField(_, _)
SumField(ps, f) ==
    IF ps = <<>> THEN 0 ELSE Head(ps)[f] + SumField(Tail(ps), f)

\* C5: while an upload is in progress or has failed, no step is a press of
\* Listen: the number of presses, of fullscreen presentations and of
\* capability checks stays, and an alert or URL open that does happen belongs
\* to a press made before.
C5_DisabledNoPress ==
    [][isUploadInProgress \/ isUploadFailed =>
          /\ Len(presses') = Len(presses)
          /\ SumField(presses', "fullscreen") = SumField(presses, "fullscreen")
          /\ SumField(presses', "nCanOpen") = SumField(presses, "nCanOpen")]_vars

C5_Witness ==
    /\ isUploadInProgress
    /\ ~isUploadFailed
    /\ \E i \in PressIds : presses[i].phase = "openPending"
    /\ \E i \in PressIds : presses[i].alerts # <<>>

HasDot(w) == \E i \in 1..Len(w) : w[i] = "."
LastDot(w) == CHOOSE i \in 1..Len(w) :
                 w[i] = "." /\ \A j \in (i + 1)..Len(w) : w[j] # "."

\* C9: for a fileName holding a '.', the title is the text before the last
\* '.', unchanged, and the extension is the text after it, upper-cased, so
\* that title + '.' + extension is fileName up to the case of the extension;
\* for a non-empty fileName with no '.', the title is empty and the extension
\* is the whole fileName upper-cased; for an empty or missing fileName both
\* are empty.  The subtitle is the uploading text when isUploadInProgress,
\* else the failure text when isUploadFailed, else the extension followed by
\* ' audio file'.
C9_TitleExtensionSubtitle ==
    /\ IF fileName = Undefined \/ fileName.v = <<>>
       THEN rendered.title = <<>> /\ rendered.extension = <<>>
       ELSE LET w == fileName.v
            IN  IF HasDot(w)
                THEN LET k == LastDot(w)
                     IN  /\ rendered.title = SubSeq(w, 1, k - 1)
                         /\ rendered.extension =
                               ToUpperCase(SubSeq(w, k + 1, Len(w)))
                         /\ Len(rendered.title) + 1 + Len(rendered.extension)
                               = Len(w)
                         /\ ToUpperCase(rendered.title \o <<".">>
                                           \o rendered.extension)
                               = ToUpperCase(w)
                ELSE /\ rendered.title = <<>>
                     /\ rendered.extension = ToUpperCase(w)
    /\ rendered.subtitle =
          IF isUploadInProgress THEN TextUploading
          ELSE IF isUploadFailed THEN TextUploadFailed
          ELSE rendered.extension \o TextAudioFile

C9_Witness ==
    /\ fileName = Chars(<<"B", ".", "a">>)
    /\ rendered.title = <<"B">>
    /\ rendered.extension = <<"A">>
    /\ rendered.subtitle = <<"A", " audio file">>
    /\ ~isUploadInProgress /\ ~isUploadFailed

----------------------------------------------------------------------------
(* Claims about the button edit component *)

\* C6: a call onToggleOpenInNewTab( value ) sets linkTarget to '_blank' when
\* value is truthy and to undefined otherwise; rel becomes
\* 'noreferrer noopener' when turning on with rel empty or unset, becomes
\* undefined when turning off with rel exactly 'noreferrer noopener', and
\* is left as it is in every other case.
C6_ToggleOpenInNewTab ==
    [][lastOp'.op = "linkChange" /\ lastOp'.toggled =>
          LET on == lastOp'.value = Bool(TRUE)
          IN  /\ linkTarget' = IF on THEN Str("_blank") ELSE Undefined
              /\ rel' = CASE on /\ rel \in {Undefined, Str("")} ->
                                Str("noreferrer noopener")
                          [] ~on /\ rel = Str("noreferrer noopener") ->
                                Undefined
                          [] OTHER -> rel]_vars

\* A custom rel has survived turning the new tab on and off again.
C6_Witness ==
    /\ lastOp.op = "linkChange"
    /\ lastOp.toggled
    /\ lastOp.value = Bool(FALSE)
    /\ lastOp.before = Str("_blank")
    /\ linkTarget = Undefined
    /\ rel = Str("nofollow")

\* C7 as stated: whenever linkTarget is '_blank', rel is non-empty.
C7_BlankImpliesRel == linkTarget = Str("_blank") => Truthy(rel)

\* C7, amended: an operation that sets linkTarget to '_blank' leaves rel
\* non-empty, and rel becomes empty while linkTarget is '_blank' only by a
\* manual edit of the 'Link rel' field to the empty string.
C7_BlankImpliesRelUnlessEdited ==
    [][linkTarget' = Str("_blank") /\ ~Truthy(rel') =>
          \/ linkTarget = Str("_blank") /\ ~Truthy(rel)
          \/ /\ lastOp'.op = "setLinkRel"
             /\ lastOp'.value = Str("")
             /\ linkTarget = Str("_blank")]_vars

C7_Witness ==
    /\ lastOp.op = "linkChange"
    /\ lastOp.toggled
    /\ lastOp.before = Undefined
    /\ linkTarget = Str("_blank")
    /\ rel = Str("noreferrer noopener")

\* C8: a reset of the range control (onChange with undefined) sets
\* borderRadius to the radius BorderPanel had when the setBorderRadius
\* callback was created (its first render since mounting or since
\* setAttributes last changed; '' when unset then), whatever the radius was
\* changed to in between; any other value v sets borderRadius to v.
C8_ResetToCaptured ==
    [][lastOp'.op = "setBorderRadius" =>
          borderRadius' = IF lastOp'.value = Undefined
                          THEN firstRenderRadius
                          ELSE lastOp'.value]_vars

\* A reset took the radius from 2 back to the 1 of the first render.
C8_Witness ==
    /\ lastOp.op = "setBorderRadius"
    /\ lastOp.value = Undefined
    /\ lastOp.before = Num(2)
    /\ borderRadius = Num(1)
    /\ firstRenderRadius = Num(1)

====
